---- MODULE Spec2Model ----
(***************************************************************************)
(* DenisTetris: the Position model (src/src/pos.rs) and the line-driven    *)
(* driver loop (src/src/comm.rs).                                          *)
(*                                                                         *)
(* Vec<..> values that the code indexes (the board, the piece matrices)    *)
(* are functions over 0..n-1 so that every index reads as in the source.   *)
(* VecDeque / Vec values that the code only pushes and pops (next_pieces,  *)
(* bag) are sequences: the front of the queue is Head, Vec::pop takes the  *)
(* last element.  Option<usize> is None (0, which is no piece id) or the   *)
(* piece id.                                                               *)
(***************************************************************************)
EXTENDS Integers, Sequences, FiniteSets, TLC

BOARD_WIDTH == 10
BOARD_HEIGHT == 22

None == 0

\* ------------------------------------------------------------------ bounds
\* How many apply_move calls one behaviour makes.
MaxMoves == 2
\* How many outcomes of Vec::shuffle the model draws from.
NumShuffles == 2
\* Deepest well of the injected mid-game boards.
MaxWell == 4
\* How many apply_move calls a behaviour makes when regeneration is the
\* caller's choice at every call.
MaxTurns == 4

\* ------------------------------------------------------------- Vec helpers
VecLen(v) == Cardinality(DOMAIN v)

ToVec(s) == [k \in 0..(Len(s) - 1) |-> s[k + 1]]

ToMatrix(rows) == [j \in 0..(Len(rows) - 1) |-> ToVec(rows[j + 1])]

\* ----------------------------------------------------------- Piece Catalog
piece_shapes ==
    << ToMatrix(<< <<0, 0, 1>>, <<1, 1, 1>> >>),
       ToMatrix(<< <<2, 0, 0>>, <<2, 2, 2>> >>),
       ToMatrix(<< <<0, 3, 3>>, <<3, 3, 0>> >>),
       ToMatrix(<< <<4, 4, 0>>, <<0, 4, 4>> >>),
       ToMatrix(<< <<0, 5, 0>>, <<5, 5, 5>> >>),
       ToMatrix(<< <<6, 6>>, <<6, 6>> >>),
       ToMatrix(<< <<7, 7, 7, 7>> >>) >>

\* result[j][n - 1 - i] = matrix[i][j]
rotate_matrix(matrix) ==
    LET n == VecLen(matrix)
        m == VecLen(matrix[0])
    IN  [j \in 0..(m - 1) |-> [c \in 0..(n - 1) |-> matrix[n - 1 - c][j]]]

RECURSIVE Rotations(_, _)
Rotations(shape, count) ==
    IF count = 0 THEN shape ELSE rotate_matrix(Rotations(shape, count - 1))

\* PIECES[piece_number - 1][rotation]
PIECES ==
    [p \in 0..6 |-> [rotation \in 0..3 |-> Rotations(piece_shapes[p + 1], rotation)]]

PieceIds == 1..7

\* ------------------------------------------------------------ Piece Supply
\* The outcomes of shuffling (1..8): permutations of 1..7.  Only the first
\* NumShuffles of this enumeration are drawn from.
Shuffled(k) == [i \in 1..7 |-> ((i * k + k) % 7) + 1]

Shuffles == {Shuffled(k) : k \in 1..NumShuffles}

\* After a refill, the id read off the end of the bag and left in it.
random_pieceRefillKept(bag, shuffled) ==
    IF bag = <<>>
    THEN <<shuffled[Len(shuffled)], shuffled>>
    ELSE <<bag[Len(bag)], SubSeq(bag, 1, Len(bag) - 1)>>

\* random_piece on a Position whose bag is `bag`; `shuffled` is what the
\* shuffle yields if the bag has to be refilled.  <<piece, new_bag>>.
random_piece(bag, shuffled) ==
    LET new_bag == IF bag = <<>> THEN shuffled ELSE bag
    IN  <<new_bag[Len(new_bag)], SubSeq(new_bag, 1, Len(new_bag) - 1)>>

\* ---------------------------------------------------------------- Position
Position(current_piece_, next_pieces_, lines_, score_, board_, bag_, pocket_) ==
    [current_piece |-> current_piece_, next_pieces |-> next_pieces_,
     lines |-> lines_, bag |-> bag_, score |-> score_, board |-> board_,
     pocket |-> pocket_]

EmptyRow == [i \in 0..(BOARD_WIDTH - 1) |-> 0]

EmptyBoard == [y \in 0..(BOARD_HEIGHT - 1) |-> EmptyRow]

\* Position::default() when the shuffle yields `shuffled`.
DefaultPosition(shuffled) ==
    Position(shuffled[7],
             <<shuffled[6], shuffled[5], shuffled[4], shuffled[3]>>,
             0, 0, EmptyBoard, SubSeq(shuffled, 1, 2), None)

\* ------------------------------------------------------ Legal-Move Generator
\* The range one column too long, and one column too short.
ColumnMovesWide(size_x, rotation, swap) ==
    [k \in 1..((BOARD_WIDTH + 2) - size_x) |-> <<k - 1, rotation, swap>>]

ColumnMovesShort(size_x, rotation, swap) ==
    [k \in 1..(BOARD_WIDTH - size_x) |-> <<k - 1, rotation, swap>>]

\* for x in 0..((BOARD_WIDTH + 1) - size_x) { push((x, rotation, swap)) }
ColumnMoves(size_x, rotation, swap) ==
    [k \in 1..((BOARD_WIDTH + 1) - size_x) |-> <<k - 1, rotation, swap>>]

SizeX(piece) == VecLen(piece[0])

SizeY(piece) == VecLen(piece)

RotationMoves(self, rotation) ==
    ColumnMoves(SizeX(PIECES[self.current_piece - 1][rotation]), rotation, FALSE)
    \o (IF self.pocket # None
        THEN ColumnMoves(SizeX(PIECES[self.pocket - 1][rotation]), rotation, TRUE)
        ELSE IF Len(self.next_pieces) > 0
        THEN ColumnMoves(SizeX(PIECES[self.next_pieces[1] - 1][rotation]), rotation, TRUE)
        ELSE <<>>)

gen_legal_moves(self) ==
    RotationMoves(self, 0) \o RotationMoves(self, 1)
    \o RotationMoves(self, 2) \o RotationMoves(self, 3)

\* ----------------------------------------------------------------- features
\* Lines 138-143: the while loop at (y, x), from l on: the empty cells it
\* counts.
RECURSIVE HoleRun(_, _, _, _)
HoleRun(board, y, x, l) ==
    IF y + l < BOARD_HEIGHT /\ board[y + l][x] = 0
    THEN 1 + HoleRun(board, y, x, l + 1)
    ELSE 0

\* Only the empty cell directly under a filled one counted.
HolesAtFirstOnly(board, y, x) ==
    IF board[y - 1][x] # 0 /\ board[y][x] = 0 THEN 1 ELSE 0

\* Lines 135-144: what the body of the loops adds to holes at (y, x).
HolesAt(board, y, x) ==
    IF board[y - 1][x] # 0 /\ board[y][x] = 0
    THEN 1 + HoleRun(board, y, x, 1)
    ELSE 0

\* Lines 130-133: what it adds to aggregate_height and to heights[x].
HeightAt(board, y, x) == IF board[y][x] # 0 THEN BOARD_HEIGHT - y ELSE 0

FilledAt(board, y, x) == IF board[y][x] # 0 THEN 1 ELSE 0

\* Lines 129-145: the inner loop for x in 0..BOARD_WIDTH of row y, from x
\* on, summing what the body adds to holes, aggregate_height and heights.
RECURSIVE RowLoop(_, _, _)
RowLoop(board, y, x) ==
    IF x = BOARD_WIDTH
    THEN [holes |-> 0, aggregate_height |-> 0]
    ELSE LET rest == RowLoop(board, y, x + 1)
         IN  [holes |-> HolesAt(board, y, x) + rest.holes,
              aggregate_height |-> HeightAt(board, y, x) + rest.aggregate_height]

\* Lines 128-146: the outer loop for y in 1..BOARD_HEIGHT, from y on.
RECURSIVE SumLoops(_, _)
SumLoops(board, y) ==
    IF y = BOARD_HEIGHT
    THEN [holes |-> 0, aggregate_height |-> 0]
    ELSE LET row == RowLoop(board, y, 0)
             rest == SumLoops(board, y + 1)
         IN  [holes |-> row.holes + rest.holes,
              aggregate_height |-> row.aggregate_height + rest.aggregate_height]

\* heights[x] after the loops.
RECURSIVE ColumnFill(_, _, _)
ColumnFill(board, y, x) ==
    IF y = BOARD_HEIGHT THEN 0
    ELSE FilledAt(board, y, x) + ColumnFill(board, y + 1, x)

Abs(n) == IF n < 0 THEN -n ELSE n

\* heights.windows(2).map(|w| (w[0] - w[1]).abs()).sum(), from window x on.
RECURSIVE Bumpiness(_, _)
Bumpiness(board, x) ==
    IF x + 1 >= BOARD_WIDTH THEN 0
    ELSE Abs(ColumnFill(board, 1, x) - ColumnFill(board, 1, x + 1))
         + Bumpiness(board, x + 1)

\* features(&self); the f64 fields hold whole numbers.
features(self) ==
    LET sums == SumLoops(self.board, 1)
    IN  [holes |-> sums.holes,
         aggregate_height |-> sums.aggregate_height,
         bumpiness |-> Bumpiness(self.board, 0),
         completed_lines |-> self.lines]

\* --------------------------------------------------------------- apply_move
\* Lines 161-190: the queue, bag and pocket bookkeeping and the piece to
\* drop.  A turn is [panic, piece_id (the piece dropped), current_piece,
\* next_pieces, bag, pocket (those of the new Position), drawn (the ids
\* pushed on the queue, in order)].  panic: a pop_front().unwrap() met an
\* empty queue.
TurnOf(panic_, piece_id_, current_piece_, next_pieces_, bag_, pocket_, drawn_) ==
    [panic |-> panic_, piece_id |-> piece_id_, current_piece |-> current_piece_,
     next_pieces |-> next_pieces_, bag |-> bag_, pocket |-> pocket_,
     drawn |-> drawn_]

\* The current piece dropped and the pocket emptied.
NoSwapEmptiesPocket(self, t) ==
    [t EXCEPT !.piece_id = self.current_piece, !.pocket = None]

\* Line 175 (!swap): drop the current piece.  t is the turn after lines
\* 161-171.
NoSwap(self, t) == [t EXCEPT !.piece_id = self.current_piece]

\* The held piece dropped and the pocket left as it was.
HoldSwapKeepsPocket(self, t) == [t EXCEPT !.piece_id = self.pocket]

\* Lines 176-178 (pocket is Some): drop the held piece, hold the current one.
HoldSwap(self, t) ==
    [t EXCEPT !.piece_id = self.pocket, !.pocket = self.current_piece]

\* The first hold without its second pop of the queue.
FirstHoldOnePop(self, t, gen_next_piece, shuffled2) ==
    IF t.next_pieces = <<>>
    THEN [t EXCEPT !.panic = TRUE, !.piece_id = t.current_piece,
                   !.pocket = self.current_piece]
    ELSE [t EXCEPT !.piece_id = t.current_piece, !.pocket = self.current_piece]

\* The first hold with nothing pushed after its second pop.
FirstHoldNoPush(self, t, gen_next_piece, shuffled2) ==
    IF t.next_pieces = <<>>
    THEN [t EXCEPT !.panic = TRUE, !.piece_id = t.current_piece,
                   !.pocket = self.current_piece]
    ELSE [t EXCEPT !.piece_id = t.current_piece,
                   !.pocket = self.current_piece,
                   !.current_piece = Head(t.next_pieces),
                   !.next_pieces = Tail(t.next_pieces)]

\* Lines 179-189 (pocket is None): hold the current piece, drop the piece
\* popped at line 162, pop the queue once more and, when regenerating, push
\* the outcome of a second self.random_piece(): like the first it reads
\* self.bag, and its bag replaces the first one's.
FirstHold(self, t, gen_next_piece, shuffled2) ==
    IF t.next_pieces = <<>>
    THEN [t EXCEPT !.panic = TRUE, !.piece_id = t.current_piece,
                   !.pocket = self.current_piece]
    ELSE LET rand == random_piece(self.bag, shuffled2)
         IN  [t EXCEPT
                !.piece_id = t.current_piece,
                !.pocket = self.current_piece,
                !.current_piece = Head(t.next_pieces),
                !.next_pieces = IF gen_next_piece
                                THEN Append(Tail(t.next_pieces), rand[1])
                                ELSE Tail(t.next_pieces),
                !.bag = IF gen_next_piece THEN rand[2] ELSE t.bag,
                !.drawn = IF gen_next_piece THEN Append(t.drawn, rand[1]) ELSE t.drawn]

\* shuffled1 / shuffled2 are the outcomes of the shuffles of the first and
\* the second random_piece call, should they refill.
Turn(self, swap, gen_next_piece, shuffled1, shuffled2) ==
    IF self.next_pieces = <<>>
    THEN TurnOf(TRUE, 0, 0, <<>>, self.bag, self.pocket, <<>>)
    ELSE
    LET rand == random_piece(self.bag, shuffled1)
        t == IF gen_next_piece
             THEN TurnOf(FALSE, 0, Head(self.next_pieces),
                         Append(Tail(self.next_pieces), rand[1]),
                         rand[2], self.pocket, <<rand[1]>>)
             ELSE TurnOf(FALSE, 0, Head(self.next_pieces),
                         Tail(self.next_pieces), self.bag, self.pocket, <<>>)
    IN  IF ~swap THEN NoSwap(self, t)
        ELSE IF self.pocket # None THEN HoldSwap(self, t)
        ELSE FirstHold(self, t, gen_next_piece, shuffled2)

\* Lines 198-199: the condition of the landing-row scan at (y, i, j).
LandingHit(board, piece, x, y, i, j) ==
    \/ y = BOARD_HEIGHT - SizeY(piece)
    \/ (x + i < BOARD_WIDTH /\ piece[j][i] # 0 /\ board[j + y + 1][i + x] # 0)

\* The scan without the floor case of its condition.
LandingRowsAboveFloor(board, piece, x) ==
    {y \in 0..(BOARD_HEIGHT - SizeY(piece) - 1) :
        \E i \in 0..(SizeX(piece) - 1) : \E j \in 0..(SizeY(piece) - 1) :
            x + i < BOARD_WIDTH /\ piece[j][i] # 0 /\ board[j + y + 1][i + x] # 0}

\* Lines 195-200: the rows of the scan at which some (i, j) meets the condition.
LandingRows(board, piece, x) ==
    {y \in 0..(BOARD_HEIGHT - SizeY(piece)) :
        \E i \in 0..(SizeX(piece) - 1) : \E j \in 0..(SizeY(piece) - 1) :
            LandingHit(board, piece, x, y, i, j)}

\* The last row of the scan that meets the condition.
Maximum(S) == CHOOSE y \in S : \A z \in S : y >= z

\* The scan returns at the first row that meets the condition.
Minimum(S) == CHOOSE y \in S : \A z \in S : y <= z

\* The place of (i, j) in the order of the two inner loops.
ScanOrder(piece, i, j) == i * SizeY(piece) + j

\* The board cells the scan has read when it stops at row y: at the rows
\* above y every cell under the guards of line 199, at row y those up to
\* the first (i, j) that meets the condition.  At the floor row the first
\* disjunct ends the scan before any read.
ScanReads(board, piece, x, y) ==
    LET cells == (0..(SizeX(piece) - 1)) \X (0..(SizeY(piece) - 1))
        hits == {ScanOrder(piece, c[1], c[2]) :
                    c \in {d \in cells : LandingHit(board, piece, x, y, d[1], d[2])}}
        guarded == {c \in cells : x + c[1] < BOARD_WIDTH /\ piece[c[2]][c[1]] # 0}
    IN  {<<c[2] + y2 + 1, c[1] + x>> : y2 \in 0..(y - 1), c \in guarded}
        \cup (IF y = BOARD_HEIGHT - SizeY(piece) THEN {}
              ELSE {<<c[2] + y + 1, c[1] + x>> :
                      c \in {d \in guarded :
                                ScanOrder(piece, d[1], d[2]) <= Minimum(hits)}})

\* Lines 205-211: the cells the stamp indexes, all of the bounding box.
StampCells(piece, x, y) ==
    {<<y + j, x + i>> : j \in 0..(SizeY(piece) - 1), i \in 0..(SizeX(piece) - 1)}

InGrid(cell) ==
    /\ cell[1] \in 0..(BOARD_HEIGHT - 1)
    /\ cell[2] \in 0..(BOARD_WIDTH - 1)

\* The stamp that fills the empty cells of the whole bounding box.
StampBox(board, piece, x, y) ==
    [r \in 0..(BOARD_HEIGHT - 1) |->
        [c \in 0..(BOARD_WIDTH - 1) |->
            IF /\ r - y \in 0..(SizeY(piece) - 1)
               /\ c - x \in 0..(SizeX(piece) - 1)
               /\ board[r][c] = 0
            THEN 1 + ((r + c) % 7)
            ELSE board[r][c]]]

\* Lines 205-211: place the piece.
Stamp(board, piece, x, y) ==
    [r \in 0..(BOARD_HEIGHT - 1) |->
        [c \in 0..(BOARD_WIDTH - 1) |->
            IF /\ r - y \in 0..(SizeY(piece) - 1)
               /\ c - x \in 0..(SizeX(piece) - 1)
               /\ board[r][c] = 0
               /\ piece[r - y][c - x] # 0
            THEN piece[r - y][c - x]
            ELSE board[r][c]]]

\* Line 216.
full_line(row) == \A i \in 0..(BOARD_WIDTH - 1) : row[i] # 0

\* The full row blanked in place, nothing shifted.
RemoveInsertInPlace(new_board, j) ==
    [new_board EXCEPT ![j] = EmptyRow]

\* Lines 220-221: new_board.remove(j); new_board.insert(0, vec![0; BOARD_WIDTH]).
RemoveInsert(new_board, j) ==
    [r \in 0..(BOARD_HEIGHT - 1) |->
        IF r = 0 THEN EmptyRow ELSE IF r <= j THEN new_board[r - 1] ELSE new_board[r]]

\* The scan that stops at the first full row it removes.
RECURSIVE UpdateLinesOnce(_, _, _)
UpdateLinesOnce(new_board, j, line_count) ==
    IF j = BOARD_HEIGHT
    THEN [board |-> new_board, line_count |-> line_count]
    ELSE IF full_line(new_board[j])
    THEN [board |-> RemoveInsert(new_board, j), line_count |-> line_count + 1]
    ELSE UpdateLinesOnce(new_board, j + 1, line_count)

\* Lines 214-223: the scan for j in 0..BOARD_HEIGHT, from row j on.
RECURSIVE UpdateLines(_, _, _)
UpdateLines(new_board, j, line_count) ==
    IF j = BOARD_HEIGHT
    THEN [board |-> new_board, line_count |-> line_count]
    ELSE IF full_line(new_board[j])
    THEN UpdateLines(RemoveInsert(new_board, j), j + 1, line_count + 1)
    ELSE UpdateLines(new_board, j + 1, line_count)

\* A table that pays 40 a row.
ScoreDeltaPerRow(line_count) ==
    IF line_count \in 1..4 THEN 40 * line_count ELSE 0

\* Lines 225-231.
ScoreDelta(line_count) ==
    CASE line_count = 1 -> 40
      [] line_count = 2 -> 100
      [] line_count = 3 -> 300
      [] line_count = 4 -> 1200
      [] OTHER -> 0

\* The check with row 1 forgotten.
GameOverTopRow(new_board) ==
    \E i \in 0..(BOARD_WIDTH - 1) : new_board[0][i] # 0

\* Lines 234-238.
GameOver(new_board) ==
    \E i \in 0..(BOARD_WIDTH - 1) : new_board[0][i] # 0 \/ new_board[1][i] # 0

\* apply_move(&self, x, rotation, swap, gen_next_piece).  result is "Some"
\* (pos is the returned Position), "None", or "panic"; panic tells which:
\* "unwrap" (of the pop of an empty queue) or "index" (outside the board).
\* The other fields record what the
\* call did: the piece dropped, the landing row, the cells the scan read and
\* the stamp indexed, the board after the stamp and before the line scan,
\* the rows cleared, the ids pushed on the queue.
apply_move(self, x, rotation, swap, gen_next_piece, shuffled1, shuffled2) ==
    LET turn == Turn(self, swap, gen_next_piece, shuffled1, shuffled2)
        blank == [result |-> "panic", panic |-> "unwrap", pos |-> self,
                  piece_id |-> turn.piece_id,
                  y |-> -1, reads |-> {}, cells |-> {}, stamped |-> self.board, line_count |-> 0,
                  drawn |-> turn.drawn, fell_through |-> FALSE]
    IN  IF turn.panic THEN blank
        ELSE
        LET piece == PIECES[turn.piece_id - 1][rotation]
            rows == LandingRows(self.board, piece, x)
        IN  IF rows = {}
            THEN [blank EXCEPT !.result = "None", !.panic = "none",
                               !.fell_through = TRUE]
            ELSE
            LET y == Minimum(rows)
                cells == StampCells(piece, x, y)
                reads == ScanReads(self.board, piece, x, y)
            IN  IF \E cell \in cells : ~InGrid(cell)
                THEN [blank EXCEPT !.panic = "index", !.y = y, !.reads = reads,
                                   !.cells = cells]
                ELSE
                LET stamped == Stamp(self.board, piece, x, y)
                    cleared == UpdateLines(stamped, 0, 0)
                    done == [blank EXCEPT !.panic = "none", !.y = y,
                                          !.reads = reads, !.cells = cells,
                                          !.stamped = stamped,
                                          !.line_count = cleared.line_count]
                IN  IF GameOver(cleared.board)
                    THEN [done EXCEPT !.result = "None"]
                    ELSE [done EXCEPT
                            !.result = "Some",
                            !.pos = Position(turn.current_piece, turn.next_pieces,
                                             self.lines + cleared.line_count,
                                             self.score + ScoreDelta(cleared.line_count),
                                             cleared.board, turn.bag, turn.pocket)]

\* ------------------------------------------------- injected mid-game boards
\* Position::new takes the board verbatim (comm.rs hands it the board of an
\* In::Pos message).  The boards drawn from here are stacks of filled rows
\* with gaps: rows top..21 are filled except the columns gaps[r] of row r.
\* None has a full row or a cell in rows 0 and 1.
CellCode(r, c) == ((r + c) % 7) + 1

Stack(top, gaps) ==
    [r \in 0..(BOARD_HEIGHT - 1) |->
        [c \in 0..(BOARD_WIDTH - 1) |->
            IF r >= top /\ c \notin gaps[r] THEN CellCode(r, c) ELSE 0]]

\* A well of the given depth in column 0.
WellBoard(depth) ==
    Stack(BOARD_HEIGHT - depth, [r \in 0..(BOARD_HEIGHT - 1) |-> {0}])

\* The well, with the two middle rows of its lowest four also open in column 9.
SplitBoard(depth) ==
    Stack(BOARD_HEIGHT - depth,
          [r \in 0..(BOARD_HEIGHT - 1) |->
              IF r \in {BOARD_HEIGHT - 3, BOARD_HEIGHT - 2} THEN {0, 9} ELSE {0}])

\* The well, with the third row from the floor also open in column 9.
NotchBoard(depth) ==
    Stack(BOARD_HEIGHT - depth,
          [r \in 0..(BOARD_HEIGHT - 1) |->
              IF r = BOARD_HEIGHT - 3 THEN {0, 9} ELSE {0}])

\* Stacks that reach row 2: a well in column 0; the well two rows deep on a
\* stack open in column 1; the open column alternating between 0 and 1.
TowerBoard == Stack(2, [r \in 0..(BOARD_HEIGHT - 1) |-> {0}])

LedgeBoard ==
    Stack(2, [r \in 0..(BOARD_HEIGHT - 1) |-> IF r <= 3 THEN {0} ELSE {1}])

ZigzagBoard == Stack(2, [r \in 0..(BOARD_HEIGHT - 1) |-> {r % 2}])

\* A stack that reaches row 2, row 2 open in column 1 and the rows beneath
\* in column 0: the T (5), stem down in column 1, completes row 2.
PlugBoard ==
    Stack(2, [r \in 0..(BOARD_HEIGHT - 1) |-> IF r = 2 THEN {1} ELSE {0}])

InjectedBoards ==
    {WellBoard(d) : d \in 1..MaxWell}
    \cup {SplitBoard(MaxWell), NotchBoard(MaxWell), TowerBoard, LedgeBoard, ZigzagBoard}

\* The Positions handed to Position::new: the bar (7) is the current piece,
\* or is held in the pocket, or is next with the bag empty; one has a single
\* queued piece and no held piece; in the last the L (1) is current over a
\* stack with buried cells.
Injected ==
    {Position(7, <<6, 5, 4, 3>>, 2, 100, b, <<1, 2>>, None) : b \in InjectedBoards}
    \cup {Position(5, <<6, 1, 4, 3>>, 2, 100, WellBoard(MaxWell), <<2>>, 7),
          Position(1, <<7, 2, 5, 3>>, 2, 100, WellBoard(MaxWell), <<>>, None),
          Position(5, <<6>>, 2, 100, WellBoard(1), <<1, 2>>, None),
          Position(1, <<4, 6, 3, 5>>, 2, 100, SplitBoard(MaxWell), <<7, 2>>, None)}

\* ------------------------------------------------------------------- state
VARIABLES
    score, current_piece, next_pieces, pocket, bag, lines, board,  \* the caller's Position
    panicked,   \* the process died of a panic
    last,       \* the apply_move call of the last step (NoCall if it made none):
                \* its arguments, self, and what it did
    stream,     \* ids the Piece Supply delivered since Position::default()
    origin,     \* "default" or "new": how the game's first Position was made
    moves,      \* apply_move calls made
    net,        \* comm.rs: whether an Evaluator is loaded (Option<FeedForwardNetwork>)
    pc,         \* comm.rs: "read" at read_line, "play" inside the PlayGame loop
    best,       \* comm.rs: PlayGame's local `best`, <<>> outside the loop
    request,    \* the request the driver handled last
    out         \* the messages that request has sent so far

driver == <<net, pc, best, request, out>>

vars ==
    <<score, current_piece, next_pieces, pocket, bag, lines, board,
      panicked, last, stream, origin, moves, net, pc, best, request, out>>

pos ==
    Position(current_piece, next_pieces, lines, score, board, bag, pocket)

SetPos(p) ==
    /\ score' = p.score
    /\ current_piece' = p.current_piece
    /\ next_pieces' = p.next_pieces
    /\ pocket' = p.pocket
    /\ bag' = p.bag
    /\ lines' = p.lines
    /\ board' = p.board

NoCall == [call |-> "none"]

InitDefault ==
    \E shuffled \in Shuffles :
        LET p == DefaultPosition(shuffled)
        IN  /\ score = p.score
            /\ current_piece = p.current_piece
            /\ next_pieces = p.next_pieces
            /\ pocket = p.pocket
            /\ bag = p.bag
            /\ lines = p.lines
            /\ board = p.board
            /\ stream = <<p.current_piece>> \o p.next_pieces
            /\ origin = "default"

InitNew ==
    \E p \in Injected :
        /\ score = p.score
        /\ current_piece = p.current_piece
        /\ next_pieces = p.next_pieces
        /\ pocket = p.pocket
        /\ bag = p.bag
        /\ lines = p.lines
        /\ board = p.board
        /\ stream = <<>>
        /\ origin = "new"

\* comm.rs lines 57-58, and nothing called yet.
InitRest ==
    /\ panicked = FALSE
    /\ last = NoCall
    /\ moves = 0
    /\ net = FALSE
    /\ pc = "read"
    /\ best = <<>>
    /\ request = "none"
    /\ out = <<>>

Init ==
    /\ InitDefault \/ InitNew
    /\ InitRest

\* The set of the elements of a sequence.
Range(s) == {s[k] : k \in 1..Len(s)}

\* What `last` records of a call and its outcome r.
CallRecord(r, move, gen_next_piece) ==
    [call |-> "apply_move", self |-> pos, x |-> move[1],
     rotation |-> move[2], swap |-> move[3],
     gen_next_piece |-> gen_next_piece, result |-> r.result,
     panic |-> r.panic, piece_id |-> r.piece_id, y |-> r.y, reads |-> r.reads,
     cells |-> r.cells, stamped |-> r.stamped, line_count |-> r.line_count,
     drawn |-> r.drawn, fell_through |-> r.fell_through]

\* A caller holding the Position calls apply_move on a move of
\* gen_legal_moves and, given Some(p), carries on from p (as the driver
\* does); given None it keeps its Position.
Call(move, gen_next_piece, shuffled1, shuffled2) ==
    \E r \in {apply_move(pos, move[1], move[2], move[3], gen_next_piece,
                          shuffled1, shuffled2)} :
        /\ SetPos(r.pos)
        /\ panicked' = (r.result = "panic")
        /\ last' = CallRecord(r, move, gen_next_piece)
        /\ stream' = IF r.result = "Some" THEN stream \o r.drawn ELSE stream
        /\ moves' = moves + 1
        /\ UNCHANGED <<origin, driver>>

\* The outcomes of the shuffles a call may make.  A call that does not
\* refill the bag draws nothing.
Refills(gen_next_piece) ==
    IF gen_next_piece /\ bag = <<>> THEN Shuffles ELSE {Shuffled(1)}

SecondRefills(move, gen_next_piece) ==
    IF move[3] /\ pocket = None THEN Refills(gen_next_piece) ELSE {Shuffled(1)}

\* Columns and rotations the player of a whole game chooses among.
PlayColumns == {0, 6}

PlayRotations == {0, 1}

\* A game: the caller applies legal moves, regeneration enabled, one after
\* the other.
Play ==
    /\ ~panicked
    /\ moves < MaxMoves
    /\ \E move \in Range(gen_legal_moves(pos)) :
          /\ move[1] \in PlayColumns
          /\ move[2] \in PlayRotations
          /\ \E shuffled1 \in Refills(TRUE) :
             \E shuffled2 \in SecondRefills(move, TRUE) :
                Call(move, TRUE, shuffled1, shuffled2)

Next == Play

Spec == Init /\ [][Next]_vars

\* One call of apply_move on a Position, with any legal move and either
\* value of gen_next_piece.
ApplyOnce ==
    /\ moves = 0
    /\ \E move \in Range(gen_legal_moves(pos)) :
       \E gen_next_piece \in BOOLEAN :
       \E shuffled1 \in Refills(gen_next_piece) :
       \E shuffled2 \in SecondRefills(move, gen_next_piece) :
          Call(move, gen_next_piece, shuffled1, shuffled2)

ApplyNext == ApplyOnce

ApplySpec == Init /\ [][ApplyNext]_vars

\* A game from Position::default() in which the caller chooses at every call
\* whether the queue is regenerated; the pieces are dropped upright in
\* column 0.
Deal ==
    /\ ~panicked
    /\ moves < MaxTurns
    /\ \E move \in Range(gen_legal_moves(pos)) :
          /\ move[1] = 0
          /\ move[2] = 1
          /\ \E gen_next_piece \in BOOLEAN :
             \E shuffled1 \in Refills(gen_next_piece) :
             \E shuffled2 \in SecondRefills(move, gen_next_piece) :
                Call(move, gen_next_piece, shuffled1, shuffled2)

DealNext == Deal

\* The game starts from Position::default().
DealInit == InitDefault /\ InitRest

DealSpec == DealInit /\ [][DealNext]_vars

\* ------------------------------------------------------ driver (comm.rs)
\* find_best_move (search.rs is not part of the sources; spec 4.5): every
\* candidate of gen_legal_moves is applied with regeneration, those that
\* yield GameOver are discarded unless all do, and the best-scored survivor
\* is returned.  The Evaluator is any function of the features, so the move
\* returned is some survivor, or some candidate when none survives.  The ids
\* drawn do not decide whether a candidate survives.
Survives(self, move) ==
    apply_move(self, move[1], move[2], move[3], TRUE,
               Shuffled(1), Shuffled(1)).result = "Some"

\* Every candidate yields GameOver.
Doomed(self) ==
    \A move \in Range(gen_legal_moves(self)) : ~Survives(self, move)

\* `move` is what find_best_move may return on self.
find_best_move(self, move) ==
    /\ move \in Range(gen_legal_moves(self))
    /\ Survives(self, move) \/ Doomed(self)

\* The moves the loaded Evaluators choose among: the piece upright in
\* column 0, swapped or not, or turned upside down in column 0.
NetMoves == {<<0, 1, FALSE>>, <<0, 1, TRUE>>, <<0, 2, FALSE>>}

\* The In::Pos messages read: they carry score, current_piece, next_pieces,
\* lines and board.
PosMessages ==
    {[score |-> 100, current_piece |-> 7, next_pieces |-> <<6, 5, 4, 3>>,
      lines |-> 2, board |-> b] : b \in {TowerBoard, LedgeBoard, ZigzagBoard}}
    \cup {[score |-> 100, current_piece |-> 5, next_pieces |-> <<6, 4, 3, 2>>,
            lines |-> 2, board |-> PlugBoard]}

\* Out::Pos, Out::GameResult, Out::Ok, Out::Ko.
OutPos(self) ==
    [type |-> "Pos", score |-> self.score, current_piece |-> self.current_piece,
     next_pieces |-> self.next_pieces, lines |-> self.lines, board |-> self.board]

\* A result that reports the score of a fresh Position.
OutGameResultFresh(score_) == [type |-> "GameResult", score |-> 0]

OutGameResult(score_) == [type |-> "GameResult", score |-> score_]

OutOk == [type |-> "Ok"]

OutKo == [type |-> "Ko"]

\* The loop is at read_line and takes the next request.
Reading == ~panicked /\ pc = "read"

Handled(req, sent) ==
    /\ request' = req
    /\ out' = sent

\* In::Load: net = Some(FeedForwardNetwork::new(..)).
Load ==
    /\ Reading
    /\ net' = TRUE
    /\ Handled("Load", <<>>)
    /\ last' = NoCall
    /\ UNCHANGED <<score, current_piece, next_pieces, pocket, bag, lines, board,
                   panicked, stream, origin, moves, pc, best>>

\* In::Pos: pos = Position::new(current_piece, next_pieces, lines, score,
\* board).  The message has no bag and no pocket: the new Position starts
\* with an empty bag and nothing held.
PosIn ==
    /\ Reading
    /\ \E msg \in PosMessages :
          SetPos(Position(msg.current_piece, msg.next_pieces, msg.lines,
                          msg.score, msg.board, <<>>, None))
    /\ stream' = <<>>
    /\ origin' = "new"
    /\ Handled("Pos", <<>>)
    /\ last' = NoCall
    /\ UNCHANGED <<panicked, moves, net, pc, best>>

\* pos.apply_move(best.0, best.1, true): the driver applies the move of
\* find_best_move with regeneration.
DriverCall(move, r) ==
    /\ last' = CallRecord(r, move, TRUE)
    /\ moves' = moves + 1

\* In::Go with an Evaluator: pos = pos.apply_move(..).unwrap(), which
\* panics on None.  Nothing is sent.
GoLoaded ==
    /\ Reading
    /\ net
    /\ moves < MaxMoves
    /\ \E move \in NetMoves :
          /\ find_best_move(pos, move)
          /\ \E shuffled1 \in Refills(TRUE) :
             \E shuffled2 \in SecondRefills(move, TRUE) :
             \E r \in {apply_move(pos, move[1], move[2], move[3], TRUE,
                                   shuffled1, shuffled2)} :
                /\ SetPos(r.pos)
                /\ panicked' = (r.result # "Some")
                /\ stream' = IF r.result = "Some" THEN stream \o r.drawn ELSE stream
                /\ DriverCall(move, r)
    /\ Handled("Go", <<>>)
    /\ UNCHANGED <<origin, net, pc, best>>

\* In::Go without one: the `if let Some(nn)` has no else.
GoUnloaded ==
    /\ Reading
    /\ ~net
    /\ Handled("Go", <<>>)
    /\ last' = NoCall
    /\ UNCHANGED <<score, current_piece, next_pieces, pocket, bag, lines, board,
                   panicked, stream, origin, moves, net, pc, best>>

\* In::Peek: prints Out::Pos of the Position.
Peek ==
    /\ Reading
    /\ Handled("Peek", <<OutPos(pos)>>)
    /\ last' = NoCall
    /\ UNCHANGED <<score, current_piece, next_pieces, pocket, bag, lines, board,
                   panicked, stream, origin, moves, net, pc, best>>

\* In::Ready: Ok with an Evaluator, Ko without.
Ready ==
    /\ Reading
    /\ Handled("Ready", IF net THEN <<OutOk>> ELSE <<OutKo>>)
    /\ last' = NoCall
    /\ UNCHANGED <<score, current_piece, next_pieces, pocket, bag, lines, board,
                   panicked, stream, origin, moves, net, pc, best>>

\* In::PlayGame with an Evaluator, line 106: the first find_best_move.
PlayGameLoaded ==
    /\ Reading
    /\ net
    /\ \E move \in NetMoves :
          /\ find_best_move(pos, move)
          /\ best' = move
    /\ pc' = "play"
    /\ Handled("PlayGame", <<>>)
    /\ last' = NoCall
    /\ UNCHANGED <<score, current_piece, next_pieces, pocket, bag, lines, board,
                   panicked, stream, origin, moves, net>>

\* In::PlayGame without one: nothing happens.
PlayGameUnloaded ==
    /\ Reading
    /\ ~net
    /\ Handled("PlayGame", <<>>)
    /\ last' = NoCall
    /\ UNCHANGED <<score, current_piece, next_pieces, pocket, bag, lines, board,
                   panicked, stream, origin, moves, net, pc, best>>

\* Lines 107-110: apply_move(best) gave Some(new_pos): pos = new_pos and the
\* next best move is found.
PlayOn ==
    /\ ~panicked
    /\ pc = "play"
    /\ moves < MaxMoves
    /\ \E shuffled1 \in Refills(TRUE) :
       \E shuffled2 \in SecondRefills(best, TRUE) :
       \E r \in {apply_move(pos, best[1], best[2], best[3], TRUE,
                             shuffled1, shuffled2)} :
          /\ r.result # "None"
          /\ SetPos(r.pos)
          /\ panicked' = (r.result = "panic")
          /\ stream' = IF r.result = "Some" THEN stream \o r.drawn ELSE stream
          /\ DriverCall(best, r)
          /\ IF r.result = "panic"
             THEN UNCHANGED best
             ELSE \E move \in NetMoves :
                     /\ find_best_move(r.pos, move)
                     /\ best' = move
    /\ UNCHANGED <<origin, net, pc, request, out>>

\* Lines 107 and 112-113: apply_move(best) gave None: the loop ends, the
\* score of pos is sent and pos becomes Position::default().
PlayOver ==
    /\ ~panicked
    /\ pc = "play"
    /\ moves < MaxMoves
    /\ \E shuffled1 \in Refills(TRUE) :
       \E shuffled2 \in SecondRefills(best, TRUE) :
       \E r \in {apply_move(pos, best[1], best[2], best[3], TRUE,
                             shuffled1, shuffled2)} :
          /\ r.result = "None"
          /\ DriverCall(best, r)
    /\ out' = Append(out, OutGameResult(score))
    /\ \E shuffled \in Shuffles :
          /\ SetPos(DefaultPosition(shuffled))
          /\ stream' = <<shuffled[7], shuffled[6], shuffled[5], shuffled[4], shuffled[3]>>
    /\ origin' = "default"
    /\ pc' = "read"
    /\ best' = <<>>
    /\ UNCHANGED <<panicked, net, request>>

DriverNext ==
    \/ Load
    \/ PosIn
    \/ GoLoaded
    \/ GoUnloaded
    \/ Peek
    \/ Ready
    \/ PlayGameLoaded
    \/ PlayGameUnloaded
    \/ PlayOn
    \/ PlayOver

\* start(): pos = Position::default(), net = None.
DriverInit == InitDefault /\ InitRest

DriverSpec == DriverInit /\ [][DriverNext]_vars

\* ================================================================ claims
Rows == 0..(BOARD_HEIGHT - 1)

Cols == 0..(BOARD_WIDTH - 1)

Applied == last.call = "apply_move"

\* The last call returned Some(Position), which the caller now holds.
Returned == Applied /\ last.result = "Some"

\* The rows of a board without an empty cell.
FullRows(b) == {r \in Rows : \A c \in Cols : b[r][c] # 0}

\* The cells the stamp of the last call filled.
NewCells == {cell \in Rows \X Cols :
                last.stamped[cell[1]][cell[2]] # last.self.board[cell[1]][cell[2]]}

\* The last call stamped piece p: it filled cells, all with p's code.
StampedPiece(p) ==
    /\ last.piece_id = p
    /\ NewCells # {}
    /\ \A cell \in NewCells : last.stamped[cell[1]][cell[2]] = p

\* The bounding-box width of piece p at rotation r, read off the seven
\* shapes: 3 wide and 2 high, but the square (6) 2 by 2 and the bar (7) 4 by 1.
Width(p, r) ==
    IF r % 2 = 0
    THEN (IF p = 6 THEN 2 ELSE IF p = 7 THEN 4 ELSE 3)
    ELSE (IF p = 6 THEN 2 ELSE IF p = 7 THEN 1 ELSE 2)

Height(p, r) == Width(p, r + 1)

\* C1: every Position the caller holds (the start Position, and whatever
\* apply_move returned after any sequence of legal moves) has rows 0 and 1
\* of its board entirely empty.
C1_TopRowsEmpty ==
    \A i \in Cols : board[0][i] = 0 /\ board[1][i] = 0

\* A piece stamped into the top two rows, carried out of them by the line
\* clear, so that apply_move returned a Position.
C1_Witness == Returned /\ last.y <= 1

\* C2: in a game started by Position::default(), the ids delivered by the
\* Piece Supply (the first five of the start Position, then every id pushed
\* on next_pieces) split into consecutive cycles of 7 without a repeat.
C2_EachIdOncePerCycle ==
    origin = "default" =>
        \A a \in 1..Len(stream) : \A b \in 1..Len(stream) :
            (a < b /\ (a - 1) \div 7 = (b - 1) \div 7) => stream[a] # stream[b]

\* C3: a successful apply_move whose stamp completes exactly k rows adds k
\* to lines and 0, 40, 100, 300, 1200 to score for k = 0, 1, 2, 3, 4.
C3_ScoreAndLines ==
    Returned =>
        LET k == Cardinality(FullRows(last.stamped))
        IN  /\ k <= 4 => lines = last.self.lines + k
            /\ k = 0 => score = last.self.score
            /\ k = 1 => score = last.self.score + 40
            /\ k = 2 => score = last.self.score + 100
            /\ k = 3 => score = last.self.score + 300
            /\ k = 4 => score = last.self.score + 1200

\* Four rows cleared by one placement.
C3_Witness == Returned /\ Cardinality(FullRows(last.stamped)) = 4

\* C4: for every legal move, swap moves included, apply_move reads and
\* indexes only cells of the 22x10 grid, column + width <= 10 and landing
\* row + height <= 22 for the piece it drops, no cell occupied before the
\* stamp changes its value, and the piece dropped for a swap move is the
\* piece whose width gen_legal_moves used (the held piece, else the front
\* of the queue).
C4_InsideGridNoOverwrite ==
    (Applied /\ last.panic # "unwrap") =>
        /\ last.piece_id \in PieceIds
        /\ last.x + Width(last.piece_id, last.rotation) <= BOARD_WIDTH
        /\ last.y >= 0
        /\ last.y + Height(last.piece_id, last.rotation) <= BOARD_HEIGHT
        /\ last.cells # {}
        /\ \A cell \in last.cells \cup last.reads :
              cell[1] \in Rows /\ cell[2] \in Cols
        /\ \A r \in Rows : \A c \in Cols :
              last.self.board[r][c] # 0 => last.stamped[r][c] = last.self.board[r][c]
        /\ last.swap =>
              last.piece_id = IF last.self.pocket # None
                              THEN last.self.pocket
                              ELSE last.self.next_pieces[1]

\* A swap move that puts the queued piece against the right wall.
C4_Witness ==
    /\ Returned
    /\ last.swap
    /\ last.self.pocket = None
    /\ last.x + Width(last.piece_id, last.rotation) = BOARD_WIDTH

\* C5: a swap with the pocket empty and a queue q0, q1, ... stamps q0, the
\* front of the queue; the Position returned holds the previous current
\* piece in its pocket, has q1 as its current piece, and its queue starts
\* after q1.
C5_FirstHold ==
    (/\ Applied /\ last.swap /\ last.self.pocket = None
     /\ Len(last.self.next_pieces) >= 2) =>
        /\ StampedPiece(last.self.next_pieces[1])
        /\ last.result = "Some" =>
              /\ pocket = last.self.current_piece
              /\ current_piece = last.self.next_pieces[2]
              /\ SubSeq(next_pieces, 1, Len(last.self.next_pieces) - 2)
                    = SubSeq(last.self.next_pieces, 3, Len(last.self.next_pieces))

C5_Witness ==
    /\ Returned /\ last.swap /\ last.self.pocket = None
    /\ Len(last.self.next_pieces) >= 2
    /\ last.self.next_pieces[1] # last.self.current_piece

\* C6: a swap with piece p in the pocket stamps p; the Position returned
\* holds the previous current piece in its pocket, has the previous front
\* of the queue as its current piece, and its queue starts after that front.
C6_HoldSwap ==
    (Applied /\ last.swap /\ last.self.pocket # None /\ last.result # "panic") =>
        /\ StampedPiece(last.self.pocket)
        /\ last.result = "Some" =>
              /\ pocket = last.self.current_piece
              /\ current_piece = last.self.next_pieces[1]
              /\ SubSeq(next_pieces, 1, Len(last.self.next_pieces) - 1)
                    = Tail(last.self.next_pieces)

C6_Witness ==
    /\ Returned /\ last.swap /\ last.self.pocket # None
    /\ last.self.pocket # last.self.current_piece

\* How often move m occurs in the sequence ms.
Occurrences(ms, m) == Cardinality({k \in 1..Len(ms) : ms[k] = m})

\* C7: gen_legal_moves of the Position held yields, for every rotation r,
\* (c, r, false) exactly once for c = 0 .. 10 - width(current_piece, r) and
\* (c, r, true) exactly once for c = 0 .. 10 - width(target, r), target being
\* the held piece or else the front of the queue, and nothing else; no swap
\* move when there is neither.
C7_LegalMoves ==
    LET ms == gen_legal_moves(pos)
        target == IF pocket # None THEN pocket
                  ELSE IF next_pieces # <<>> THEN next_pieces[1] ELSE None
    IN  /\ \A k \in 1..Len(ms) :
              ms[k][1] \in 0..BOARD_WIDTH /\ ms[k][2] \in 0..3 /\ ms[k][3] \in BOOLEAN
        /\ \A r \in 0..3 : \A c \in 0..BOARD_WIDTH :
              /\ Occurrences(ms, <<c, r, FALSE>>)
                    = IF c <= BOARD_WIDTH - Width(current_piece, r) THEN 1 ELSE 0
              /\ Occurrences(ms, <<c, r, TRUE>>)
                    = IF target # None /\ c <= BOARD_WIDTH - Width(target, r)
                      THEN 1 ELSE 0

\* A returned Position with the square current, nothing queued and nothing
\* held: 9 columns at each rotation, and no swap move.
C7_Witness ==
    /\ Returned
    /\ current_piece = 6 /\ pocket = None /\ next_pieces = <<>>
    /\ Len(gen_legal_moves(pos)) = 36

\* C8: a Go request on a Position from which every legal move yields
\* GameOver ends in a well-defined outcome, the driver alive and reading the
\* next request; it never dies of the unwrap of the missing Position.
C8_GoOnDoomedPositionHandled ==
    (request = "Go" /\ Applied /\ Doomed(last.self)) =>
        (~panicked /\ pc = "read")

\* C9: a Go or PlayGame request handled with no Evaluator loaded sends a
\* report (which is no GameResult), and leaves the Position alone without
\* calling apply_move.
C9_NotReadyReported ==
    (request \in {"Go", "PlayGame"} /\ ~net) =>
        /\ out # <<>>
        /\ \A k \in 1..Len(out) : out[k].type # "GameResult"
        /\ ~Applied

\* C10: the board returned is the stamped board with its full rows deleted,
\* the other rows in their order, and as many empty rows on top: a row that
\* is not full moves down by the number of full rows beneath it.
C10_ClearedBoard ==
    Returned =>
        LET full == FullRows(last.stamped)
        IN  \A r \in Rows :
              /\ r < Cardinality(full) => board[r] = EmptyRow
              /\ r \notin full =>
                    board[r + Cardinality({f \in full : f > r})] = last.stamped[r]

\* Two full rows cleared with a kept, occupied row between them.
C10_Witness ==
    /\ Returned
    /\ \E r1 \in Rows : \E r2 \in Rows : \E r3 \in Rows :
          /\ r1 < r2 /\ r2 < r3
          /\ {r1, r3} \subseteq FullRows(last.stamped)
          /\ r2 \notin FullRows(last.stamped)
          /\ last.stamped[r2] # EmptyRow

\* C11: a PlayGame request with an Evaluator loaded sends nothing while its
\* loop runs, and every move it has applied so far gave a Position; the loop
\* ends on the call that reports GameOver, the one message sent is the
\* GameResult with the score of the Position that call was made on (the last
\* one produced; what the rejected placement would have scored is not in
\* it), and the Position is then Position::default(): empty board, score 0,
\* lines 0, nothing held.
C11_PlayGameReportsLastScore ==
    (request = "PlayGame" /\ net /\ ~panicked) =>
        /\ pc = "play" =>
              /\ out = <<>>
              /\ Applied => last.result = "Some"
        /\ pc = "read" =>
              /\ Applied /\ last.result = "None"
              /\ out = <<[type |-> "GameResult", score |-> last.self.score]>>
              /\ board = EmptyBoard /\ score = 0 /\ lines = 0 /\ pocket = None
              /\ Len(next_pieces) = 4 /\ current_piece \in PieceIds

\* A game of two calls: the first placement scored 40, the second was
\* rejected, and 140 is reported.
C11_Witness ==
    /\ request = "PlayGame" /\ net /\ pc = "read"
    /\ Applied /\ last.result = "None" /\ last.self.score = 140
    /\ out = <<[type |-> "GameResult", score |-> 140]>>

\* C12: in every Position of a game from Position::default(), with or
\* without regeneration at each call, the bag holds ids of 1..7, none
\* twice; and a call that drew from an empty bag left six ids in the bag,
\* which with the id it drew last are all of 1..7.
C12_BagOfDistinctIds ==
    /\ \A k \in 1..Len(bag) : bag[k] \in 1..7
    /\ \A a \in 1..Len(bag) : \A b \in 1..Len(bag) : a # b => bag[a] # bag[b]
    /\ (Returned /\ last.self.bag = <<>> /\ last.drawn # <<>>) =>
          /\ Len(bag) = 6
          /\ Range(bag) \cup {last.drawn[Len(last.drawn)]} = 1..7

\* A regenerating call on a Position whose bag the earlier calls emptied.
C12_Witness ==
    /\ Returned /\ last.self.bag = <<>> /\ last.drawn # <<>>
    /\ moves >= 3

\* C13: in a game from Position::default() played with regeneration, swaps
\* and first holds included, every Position has exactly 4 queued pieces and
\* no pop of the queue inside apply_move met an empty queue.
C13_QueueOfFour ==
    origin = "default" =>
        /\ Len(next_pieces) = 4
        /\ ~panicked
        /\ Applied => last.panic # "unwrap"

\* A first hold, which pops the queue twice, after an earlier move.
C13_Witness ==
    /\ origin = "default" /\ Returned /\ moves = 2
    /\ last.swap /\ last.self.pocket = None /\ Len(last.drawn) = 2

\* Piece p at rotation r, placed with its box at row y and column x, lies on
\* an occupied cell of board b.
Overlaps(b, p, r, x, y) ==
    \E j \in 0..(Height(p, r) - 1) : \E i \in 0..(Width(p, r) - 1) :
        PIECES[p - 1][r][j][i] # 0 /\ b[y + j][x + i] # 0

\* The last call dropped its piece on a board whose rows 0 and 1 are empty.
DroppedOnClearTop ==
    /\ Applied /\ last.panic = "none"
    /\ \A c \in Cols : last.self.board[0][c] = 0 /\ last.self.board[1][c] = 0

\* The landing row of the last call is the resting row of its piece: no
\* overlap at that row nor at any row above, and the floor or an overlap
\* one row lower.
RestingRow ==
    LET b == last.self.board
        p == last.piece_id
        r == last.rotation
    IN  /\ \A y \in 0..last.y : ~Overlaps(b, p, r, last.x, y)
        /\ \/ last.y = BOARD_HEIGHT - Height(p, r)
           \/ Overlaps(b, p, r, last.x, last.y + 1)

ClearedBoard == UpdateLines(last.stamped, 0, 0).board

\* C15: a call of apply_move on a legal move that gets past the pops of
\* the queue finds a landing row (it never falls through to the None at
\* the end of the function), and it returns None exactly when, after the
\* stamp and the line update, a cell of row 0 or row 1 is occupied.
C15_GameOverIffTopRowsOccupied ==
    (Applied /\ last.result # "panic") =>
        /\ ~last.fell_through
        /\ last.y \in Rows
        /\ last.result = "None" <=>
              \E c \in Cols : ClearedBoard[0][c] # 0 \/ ClearedBoard[1][c] # 0

\* GameOver although the placement completed a row: the piece still has a
\* cell in row 1 after the row is removed.
C15_Witness ==
    /\ Applied /\ last.result = "None" /\ last.line_count = 1
    /\ \A c \in Cols : ClearedBoard[0][c] = 0
    /\ \E c \in Cols : ClearedBoard[1][c] # 0

\* The empty cells of board b with an occupied cell somewhere above them in
\* their column.
Buried(b) ==
    {cell \in Rows \X Cols :
        /\ b[cell[1]][cell[2]] = 0
        /\ \E r \in 0..(cell[1] - 1) : b[r][cell[2]] # 0}

\* C16: the holes feature of the Position held is the number of its buried
\* empty cells.
C16_HolesCountBuriedCells ==
    features(pos).holes = Cardinality(Buried(board))

\* A returned Position with a column that holds two separate buried runs,
\* a single cell and, under the filled cell beneath it, two cells or more.
C16_Witness ==
    /\ Returned
    /\ LET buried == Buried(board)
       IN  \E c \in Cols : \E r1 \in Rows : \E r3 \in Rows :
              /\ r1 + 1 < r3
              /\ <<r1, c>> \in buried
              /\ board[r1 + 1][c] # 0
              /\ {<<r3, c>>, <<r3 + 1, c>>} \subseteq buried

\* The occupied cells of board b.
Occupied(b) == {cell \in Rows \X Cols : b[cell[1]][cell[2]] # 0}

\* C18: a successful apply_move whose stamp completes k rows stamps four
\* cells, all on empty cells, and leaves 4 - 10 * k more occupied cells on
\* the board than there were.
C18_CellCount ==
    Returned =>
        LET k == Cardinality(FullRows(last.stamped))
        IN  /\ Cardinality(NewCells) = 4
            /\ \A cell \in NewCells : last.self.board[cell[1]][cell[2]] = 0
            /\ Cardinality(Occupied(last.stamped))
                  = Cardinality(Occupied(last.self.board)) + 4
            /\ Cardinality(Occupied(board))
                  = Cardinality(Occupied(last.self.board)) + 4 - 10 * k

\* A placement that completes two rows: 16 occupied cells fewer.
C18_Witness ==
    /\ Returned
    /\ Cardinality(FullRows(last.stamped)) = 2
    /\ Cardinality(Occupied(board)) = Cardinality(Occupied(last.self.board)) - 16

\* C19: no Position held has a completely filled row, and no call clears
\* more than 4 rows: the fall-through arm of the score table is taken for
\* 0 cleared rows only.
C19_NoFullRowKept ==
    /\ FullRows(board) = {}
    /\ (Applied /\ last.panic = "none") =>
          /\ last.line_count \in 0..4
          /\ FullRows(last.self.board) = {}
          /\ last.line_count = Cardinality(FullRows(last.stamped))

\* The bar completes four rows at once and all four are removed.
C19_Witness ==
    /\ Returned /\ last.line_count = 4 /\ last.piece_id = 7
    /\ FullRows(board) = {}

\* C20: a successful apply_move without swap stamps the current piece and
\* leaves the pocket as it was; and a pocket that holds a piece holds a
\* piece of 1..7 after any successful call, swap or not.
C20_PocketChangesOnSwapOnly ==
    /\ pocket \in {None} \cup PieceIds
    /\ Returned =>
          /\ ~last.swap =>
                /\ pocket = last.self.pocket
                /\ StampedPiece(last.self.current_piece)
          /\ last.self.pocket # None => pocket \in PieceIds
          /\ pocket # last.self.pocket => last.swap

\* A move without swap made while a piece is held, after the move that
\* held it.
C20_Witness ==
    /\ Returned /\ moves = 2 /\ origin = "default"
    /\ ~last.swap /\ last.self.pocket # None /\ pocket = last.self.pocket

====
